---- MODULE Spec2Model ----
(***************************************************************************)
(* Ultra!Pong HDR (DELTAPONGHDRV0.py): the game's globals, the main menu,  *)
(* the event loop of __main__ and update_game_state as a state machine.    *)
(*                                                                         *)
(* pygame.Rect holds integers; ball_speed_x / ball_speed_y become floats   *)
(* after a paddle hit.  Speeds are kept in fixed point, Scale units per    *)
(* pixel: the vertical speed delta_y * 0.17 is exact in this scale, the    *)
(* horizontal speed 4 * 1.07^k is cut below the sixth decimal, which never *)
(* changes its integer part.  A float stored into a Rect attribute is cut  *)
(* toward zero (RectInt).                                                  *)
(***************************************************************************)
EXTENDS Integers, Sequences, FiniteSets, TLC

\* ---- Game constants (lines 99-113) ----
SCREEN_WIDTH == 600
SCREEN_HEIGHT == 400
PADDLE_WIDTH == 15
PADDLE_HEIGHT == 80
BALL_RADIUS == 8
AI_PADDLE_SPEED == 6
BALL_SPEED_X_INITIAL == 4
BALL_SPEED_Y_INITIAL == 4
WINNING_SCORE == 5
MAX_ABS_BALL_SPEED_X == 10
MAX_ABS_BALL_SPEED_Y == 8
\* PADDLE_HIT_SPEED_INCREASE_FACTOR = 1.07 and PADDLE_BOUNCE_ANGLE_FACTOR = 1.7
\* as fractions
SPEED_INCREASE_NUM == 107
SPEED_INCREASE_DEN == 100
BOUNCE_ANGLE_NUM == 17
BOUNCE_ANGLE_DEN == 10
\* horizontal offset of both paddles from their side of the screen (138, 140)
PADDLE_MARGIN == 30

\* fixed-point scale of the two speeds
Scale == 1000000

\* pointer rows sampled by pygame.mouse.get_pos()[1]: top and bottom row of the
\* window
MousePositions == {0, SCREEN_HEIGHT - 1}

\* keys delivered as KEYDOWN events
Keys == {"K_p", "K_ESCAPE", "K_y", "K_n", "K_RETURN"}

VARIABLES
  pc,              \* "menu": in main_menu; "loop": in the game loop; "done": exited
  running,         \* the loop flag of __main__
  ball,            \* top-left corner of the ball Rect
  ball_speed_x,
  ball_speed_y,
  player_paddle,   \* top-left corner of the paddle Rect
  ai_paddle,
  player_score,
  ai_score,
  game_paused,
  game_over,
  winner,
  op,              \* the last operation: "tick", or the type of the event handled
  sounds,          \* the play_*_sound calls of the last operation, in order
  point_scored,    \* update_game_state's local at the end of the last tick
  served,          \* the reset_ball call of the last operation ("none" if none)
  at_test,         \* the ball Rect as it stood at the scoring test (306) of the
                   \* last tick that was not skipped
  hit              \* the paddle whose collision branch (244, 262) the last
                   \* operation took: "player", "ai" or "none"

vars == <<pc, running, ball, ball_speed_x, ball_speed_y, player_paddle, ai_paddle,
          player_score, ai_score, game_paused, game_over, winner,
          op, sounds, point_scored, served, at_test, hit>>

\* ---- arithmetic helpers ----
Abs(n) == IF n < 0 THEN -n ELSE n

Min(a, b) == IF a < b THEN a ELSE b

\* math.copysign(m, v) for v # 0
copysign(m, v) == IF v < 0 THEN -m ELSE m

\* a float (in Scale units) stored into an integer Rect attribute: cut toward zero
RectInt(v) == IF v >= 0 THEN v \div Scale ELSE -((-v) \div Scale)

\* ---- pygame.Rect attributes ----
BALL_SIZE == BALL_RADIUS * 2

Left(r) == r.x
Top(r) == r.y
BallRight(b) == b.x + BALL_SIZE
BallBottom(b) == b.y + BALL_SIZE
BallCenterY(b) == b.y + BALL_SIZE \div 2
PaddleRight(p) == p.x + PADDLE_WIDTH
PaddleBottom(p) == p.y + PADDLE_HEIGHT
PaddleCenterY(p) == p.y + PADDLE_HEIGHT \div 2

\* ball.center = (SCREEN_WIDTH // 2, SCREEN_HEIGHT // 2)
BallCentred == [x |-> SCREEN_WIDTH \div 2 - BALL_SIZE \div 2,
                y |-> SCREEN_HEIGHT \div 2 - BALL_SIZE \div 2]

\* paddle.centery = cy
SetCenterY(p, cy) == [p EXCEPT !.y = cy - PADDLE_HEIGHT \div 2]

\* ball.colliderect(paddle)
colliderect(b, p) ==
  /\ b.x < p.x + PADDLE_WIDTH
  /\ b.y < p.y + PADDLE_HEIGHT
  /\ b.x + BALL_SIZE > p.x
  /\ b.y + BALL_SIZE > p.y

\* clamp_ip clamping the top only
clamp_ip_top(p) ==
  [x |-> IF p.x < 0 THEN 0 ELSE p.x,
   y |-> IF p.y < 0 THEN 0 ELSE p.y]

\* paddle.clamp_ip(screen.get_rect())
clamp_ip(p) ==
  [x |-> IF p.x < 0 THEN 0
         ELSE IF p.x + PADDLE_WIDTH > SCREEN_WIDTH THEN SCREEN_WIDTH - PADDLE_WIDTH
         ELSE p.x,
   y |-> IF p.y < 0 THEN 0
         ELSE IF p.y + PADDLE_HEIGHT > SCREEN_HEIGHT THEN SCREEN_HEIGHT - PADDLE_HEIGHT
         ELSE p.y]

\* ---- the globals as one record, for the functions that update them ----
Globals ==
  [ball |-> ball, ball_speed_x |-> ball_speed_x, ball_speed_y |-> ball_speed_y,
   player_paddle |-> player_paddle, ai_paddle |-> ai_paddle,
   player_score |-> player_score, ai_score |-> ai_score,
   game_paused |-> game_paused, game_over |-> game_over, winner |-> winner,
   running |-> running,
   sounds |-> <<>>, collided |-> FALSE, point_scored |-> FALSE,
   serve_to_player_next |-> FALSE, served |-> "none", at_test |-> at_test,
   hit |-> "none"]

\* reset_ball with the two horizontal directions exchanged
reset_ball_flipped(s, served_by_player_next, choice) ==
  [s EXCEPT !.ball = BallCentred,
            !.ball_speed_x = IF served_by_player_next
                             THEN -BALL_SPEED_X_INITIAL * Scale
                             ELSE BALL_SPEED_X_INITIAL * Scale,
            !.ball_speed_y = IF choice
                             THEN BALL_SPEED_Y_INITIAL * Scale
                             ELSE -BALL_SPEED_Y_INITIAL * Scale,
            !.served = IF served_by_player_next THEN "player" ELSE "ai"]

\* def reset_ball(served_by_player_next); choice is random.choice([True, False])
reset_ball(s, served_by_player_next, choice) ==
  [s EXCEPT !.ball = BallCentred,
            !.ball_speed_x = IF served_by_player_next
                             THEN BALL_SPEED_X_INITIAL * Scale
                             ELSE -BALL_SPEED_X_INITIAL * Scale,
            !.ball_speed_y = IF choice
                             THEN BALL_SPEED_Y_INITIAL * Scale
                             ELSE -BALL_SPEED_Y_INITIAL * Scale,
            !.served = IF served_by_player_next THEN "player" ELSE "ai"]

\* reset_game without the two paddle assignments (185-186)
reset_game_keeps_paddles(s, first, choice) ==
  reset_ball([s EXCEPT !.player_score = 0,
                       !.ai_score = 0,
                       !.game_over = FALSE,
                       !.winner = "",
                       !.game_paused = FALSE],
             first, choice)

\* def reset_game(); first and choice are the two random.choice results
reset_game(s, first, choice) ==
  reset_ball([s EXCEPT !.player_score = 0,
                       !.ai_score = 0,
                       !.game_over = FALSE,
                       !.winner = "",
                       !.game_paused = FALSE,
                       !.player_paddle = SetCenterY(s.player_paddle, SCREEN_HEIGHT \div 2),
                       !.ai_paddle = SetCenterY(s.ai_paddle, SCREEN_HEIGHT \div 2)],
             first, choice)

\* ---- update_game_state, step by step ----

\* Ball Movement (237-238)
\* the movement with the x coordinate left alone
MoveBallVertical(s) ==
  [s EXCEPT !.ball = [x |-> s.ball.x,
                      y |-> RectInt(s.ball.y * Scale + s.ball_speed_y)]]

MoveBall(s) ==
  [s EXCEPT !.ball = [x |-> RectInt(s.ball.x * Scale + s.ball_speed_x),
                      y |-> RectInt(s.ball.y * Scale + s.ball_speed_y)]]

\* the new speed without the min against MAX_ABS_BALL_SPEED_X
NewAbsSpeedXUncapped(vx) ==
  (Abs(vx) * SPEED_INCREASE_NUM) \div SPEED_INCREASE_DEN

\* min(abs(ball_speed_x) * PADDLE_HIT_SPEED_INCREASE_FACTOR, MAX_ABS_BALL_SPEED_X)
NewAbsSpeedX(vx) ==
  Min((Abs(vx) * SPEED_INCREASE_NUM) \div SPEED_INCREASE_DEN, MAX_ABS_BALL_SPEED_X * Scale)

\* (delta_y / (PADDLE_HEIGHT / 2)) * BALL_SPEED_Y_INITIAL * PADDLE_BOUNCE_ANGLE_FACTOR
BounceSpeedY(delta_y) ==
  (((delta_y * Scale) \div (PADDLE_HEIGHT \div 2)) * BALL_SPEED_Y_INITIAL
     * BOUNCE_ANGLE_NUM) \div BOUNCE_ANGLE_DEN

\* the collision response without the position correction
PaddleCollisionInPlace(s) ==
  IF colliderect(s.ball, s.player_paddle)
  THEN [s EXCEPT !.collided = TRUE,
                 !.hit = "player",
                 !.sounds = Append(s.sounds, "PaddleHit"),
                 !.ball_speed_x = NewAbsSpeedX(s.ball_speed_x),
                 !.ball_speed_y =
                    BounceSpeedY(BallCenterY(s.ball) - PaddleCenterY(s.player_paddle))]
  ELSE IF colliderect(s.ball, s.ai_paddle)
  THEN [s EXCEPT !.collided = TRUE,
                 !.hit = "ai",
                 !.sounds = Append(s.sounds, "PaddleHit"),
                 !.ball_speed_x = -NewAbsSpeedX(s.ball_speed_x),
                 !.ball_speed_y =
                    BounceSpeedY(BallCenterY(s.ball) - PaddleCenterY(s.ai_paddle))]
  ELSE s

\* Paddle Collision and Response (241-277)
PaddleCollision(s) ==
  IF colliderect(s.ball, s.player_paddle)
  THEN LET b == [s.ball EXCEPT !.x = PaddleRight(s.player_paddle)]
       IN [s EXCEPT !.collided = TRUE,
                    !.hit = "player",
                    !.sounds = Append(s.sounds, "PaddleHit"),
                    !.ball = b,
                    !.ball_speed_x = NewAbsSpeedX(s.ball_speed_x),
                    !.ball_speed_y =
                       BounceSpeedY(BallCenterY(b) - PaddleCenterY(s.player_paddle))]
  ELSE IF colliderect(s.ball, s.ai_paddle)
  THEN LET b == [s.ball EXCEPT !.x = Left(s.ai_paddle) - BALL_SIZE]
       IN [s EXCEPT !.collided = TRUE,
                    !.hit = "ai",
                    !.sounds = Append(s.sounds, "PaddleHit"),
                    !.ball = b,
                    !.ball_speed_x = -NewAbsSpeedX(s.ball_speed_x),
                    !.ball_speed_y =
                       BounceSpeedY(BallCenterY(b) - PaddleCenterY(s.ai_paddle))]
  ELSE s

\* the adjustments without the minimum vertical speed
AdjustSpeedYNoFloor(s) ==
  IF ~s.collided THEN s
  ELSE IF Abs(s.ball_speed_y) > MAX_ABS_BALL_SPEED_Y * Scale
  THEN [s EXCEPT !.ball_speed_y = copysign(MAX_ABS_BALL_SPEED_Y * Scale, s.ball_speed_y)]
  ELSE s

\* Common adjustments for ball_speed_y after a paddle collision (280-287)
AdjustSpeedY(s) ==
  IF ~s.collided THEN s
  ELSE IF Abs(s.ball_speed_y) > MAX_ABS_BALL_SPEED_Y * Scale
  THEN [s EXCEPT !.ball_speed_y = copysign(MAX_ABS_BALL_SPEED_Y * Scale, s.ball_speed_y)]
  ELSE IF 0 < Abs(s.ball_speed_y) /\ Abs(s.ball_speed_y) < Scale
  THEN [s EXCEPT !.ball_speed_y = copysign(Scale, s.ball_speed_y)]
  ELSE s

\* the wall response without the clamp
WallCollisionUnclamped(s) ==
  IF Top(s.ball) <= 0 \/ BallBottom(s.ball) >= SCREEN_HEIGHT
  THEN [s EXCEPT !.ball_speed_y = -s.ball_speed_y,
                 !.sounds = IF ~s.collided THEN Append(s.sounds, "WallHit") ELSE s.sounds]
  ELSE s

\* the wall response with the wall sound played whatever happened before
WallCollisionLoud(s) ==
  IF Top(s.ball) <= 0
  THEN [s EXCEPT !.ball.y = 0,
                 !.ball_speed_y = -s.ball_speed_y,
                 !.sounds = Append(s.sounds, "WallHit")]
  ELSE IF BallBottom(s.ball) >= SCREEN_HEIGHT
  THEN [s EXCEPT !.ball.y = SCREEN_HEIGHT - BALL_SIZE,
                 !.ball_speed_y = -s.ball_speed_y,
                 !.sounds = Append(s.sounds, "WallHit")]
  ELSE s

\* Wall Collisions (291-300)
WallCollision(s) ==
  IF Top(s.ball) <= 0
  THEN [s EXCEPT !.ball.y = 0,
                 !.ball_speed_y = -s.ball_speed_y,
                 !.sounds = IF ~s.collided THEN Append(s.sounds, "WallHit") ELSE s.sounds]
  ELSE IF BallBottom(s.ball) >= SCREEN_HEIGHT
  THEN [s EXCEPT !.ball.y = SCREEN_HEIGHT - BALL_SIZE,
                 !.ball_speed_y = -s.ball_speed_y,
                 !.sounds = IF ~s.collided THEN Append(s.sounds, "WallHit") ELSE s.sounds]
  ELSE s

\* the left test on the ball's right edge: the whole ball past the bound
AIScoresWhenOut(s) == BallRight(s.ball) <= 0

\* the left test without its equality
AIScoresStrict(s) == Left(s.ball) < 0

\* the scoring test (306, 314): which side scores, if any
AIScores(s) == Left(s.ball) <= 0

\* the right test taken at the AI paddle's face instead of the arena bound
PlayerScoresAtPaddle(s) == ~AIScores(s) /\ BallRight(s.ball) >= Left(s.ai_paddle)

PlayerScores(s) == ~AIScores(s) /\ BallRight(s.ball) >= SCREEN_WIDTH

\* the win test with > written for >=
WinsStrict(n) == n > WINNING_SCORE

\* the win test (311, 319)
Wins(n) == n >= WINNING_SCORE

\* the scoring step with winner = "AI" moved out of the win test
ScoreTestWinnerEarly(s) ==
  IF AIScores(s)
  THEN LET n == s.ai_score + 1
       IN [s EXCEPT !.ai_score = n,
                    !.sounds = Append(s.sounds, "Score"),
                    !.point_scored = TRUE,
                    !.serve_to_player_next = TRUE,
                    !.game_over = IF Wins(n) THEN TRUE ELSE s.game_over,
                    !.winner = "AI"]
  ELSE IF PlayerScores(s)
  THEN LET n == s.player_score + 1
       IN [s EXCEPT !.player_score = n,
                    !.sounds = Append(s.sounds, "Score"),
                    !.point_scored = TRUE,
                    !.serve_to_player_next = FALSE,
                    !.game_over = IF Wins(n) THEN TRUE ELSE s.game_over,
                    !.winner = IF Wins(n) THEN "Player" ELSE s.winner]
  ELSE s

\* Scoring, first part (303-321)
ScoreTest(s) ==
  IF AIScores(s)
  THEN LET n == s.ai_score + 1
       IN [s EXCEPT !.ai_score = n,
                    !.sounds = Append(s.sounds, "Score"),
                    !.point_scored = TRUE,
                    !.serve_to_player_next = TRUE,
                    !.game_over = IF Wins(n) THEN TRUE ELSE s.game_over,
                    !.winner = IF Wins(n) THEN "AI" ELSE s.winner]
  ELSE IF PlayerScores(s)
  THEN LET n == s.player_score + 1
       IN [s EXCEPT !.player_score = n,
                    !.sounds = Append(s.sounds, "Score"),
                    !.point_scored = TRUE,
                    !.serve_to_player_next = FALSE,
                    !.game_over = IF Wins(n) THEN TRUE ELSE s.game_over,
                    !.winner = IF Wins(n) THEN "Player" ELSE s.winner]
  ELSE s

\* the second part with the serve not guarded by "not game_over"
ServeAlways(s, choice) ==
  IF s.point_scored
  THEN reset_ball(s, s.serve_to_player_next, choice)
  ELSE s

\* Scoring, second part (323-328): serve again, or freeze the ball
ServeOrFreeze(s, choice) ==
  IF s.point_scored /\ ~s.game_over
  THEN reset_ball(s, s.serve_to_player_next, choice)
  ELSE IF s.point_scored /\ s.game_over
  THEN [s EXCEPT !.ball = BallCentred, !.ball_speed_x = 0, !.ball_speed_y = 0]
  ELSE s

\* Player Paddle Control (332-335)
PlayerControl(s, mouse_y) ==
  [s EXCEPT !.player_paddle = clamp_ip(SetCenterY(s.player_paddle, mouse_y))]

\* the AI control comparing the centres without the deadzone
AIControlNoDeadzone(s) ==
  LET cy == PaddleCenterY(s.ai_paddle)
      by == BallCenterY(s.ball)
      moved == IF cy < by
               THEN [s.ai_paddle EXCEPT !.y = @ + AI_PADDLE_SPEED]
               ELSE IF cy > by
               THEN [s.ai_paddle EXCEPT !.y = @ - AI_PADDLE_SPEED]
               ELSE s.ai_paddle
  IN [s EXCEPT !.ai_paddle = clamp_ip(moved)]

\* AI Paddle Control (340-345); the comparison with AI_PADDLE_SPEED / 2 is doubled
AIControl(s) ==
  LET cy == PaddleCenterY(s.ai_paddle)
      by == BallCenterY(s.ball)
      moved == IF 2 * cy < 2 * by - AI_PADDLE_SPEED
               THEN [s.ai_paddle EXCEPT !.y = @ + AI_PADDLE_SPEED]
               ELSE IF 2 * cy > 2 * by + AI_PADDLE_SPEED
               THEN [s.ai_paddle EXCEPT !.y = @ - AI_PADDLE_SPEED]
               ELSE s.ai_paddle
  IN [s EXCEPT !.ai_paddle = clamp_ip(moved)]

\* the early return testing game_over alone
FrozenWhenOver(s) == s.game_over

\* the early return of update_game_state (233)
Frozen(s) == s.game_paused \/ s.game_over

\* the ball after integration and collision resolution, before the scoring test
Resolved(s) ==
  LET r == WallCollision(AdjustSpeedY(PaddleCollision(MoveBall(s))))
  IN [r EXCEPT !.at_test = r.ball]

\* def update_game_state()
update_game_state(s, mouse_y, choice) ==
  IF Frozen(s) THEN s
  ELSE AIControl(PlayerControl(ServeOrFreeze(ScoreTest(Resolved(s)), choice), mouse_y))

\* ---- the event loop of __main__ (383-399) ----

\* pygame.QUIT (384-385)
HandleQuit(s) == [s EXCEPT !.running = FALSE]

\* K_p while the game is not over (387-388)
TogglePause(s) == [s EXCEPT !.game_paused = ~s.game_paused]

\* Y / N with the two keys exchanged
HandleGameOverKeySwapped(s, key, first, choice) ==
  IF key = "K_n" THEN reset_game(s, first, choice)
  ELSE IF key = "K_y" THEN [s EXCEPT !.running = FALSE]
  ELSE s

\* Y / N while the game is over (389-393)
HandleGameOverKey(s, key, first, choice) ==
  IF key = "K_y" THEN reset_game(s, first, choice)
  ELSE IF key = "K_n" THEN [s EXCEPT !.running = FALSE]
  ELSE s

\* K_ESCAPE leaving the game loop instead of pausing a running game
HandleEscapeQuits(s) ==
  IF s.game_paused THEN [s EXCEPT !.game_paused = FALSE]
  ELSE IF ~s.game_over THEN [s EXCEPT !.running = FALSE]
  ELSE s

\* K_ESCAPE while the game is not over (394-399)
HandleEscape(s) ==
  IF s.game_paused THEN [s EXCEPT !.game_paused = FALSE]
  ELSE IF ~s.game_over THEN [s EXCEPT !.game_paused = TRUE]
  ELSE s

\* KEYDOWN with K_p not guarded by "not game_over"
HandleKeyDownPauseAlways(s, key, first, choice) ==
  IF key = "K_p" THEN TogglePause(s)
  ELSE IF s.game_over THEN HandleGameOverKey(s, key, first, choice)
  ELSE IF key = "K_ESCAPE" THEN HandleEscape(s)
  ELSE s

\* pygame.KEYDOWN (386-399)
HandleKeyDown(s, key, first, choice) ==
  IF key = "K_p" /\ ~s.game_over THEN TogglePause(s)
  ELSE IF s.game_over THEN HandleGameOverKey(s, key, first, choice)
  ELSE IF key = "K_ESCAPE" THEN HandleEscape(s)
  ELSE s

\* one event of the for loop (383-399)
HandleEvent(s, e, first, choice) ==
  IF e = "QUIT" THEN HandleQuit(s) ELSE HandleKeyDown(s, e, first, choice)

\* ---- state machine ----
SetGlobals(s) ==
  /\ ball' = s.ball
  /\ ball_speed_x' = s.ball_speed_x
  /\ ball_speed_y' = s.ball_speed_y
  /\ player_paddle' = s.player_paddle
  /\ ai_paddle' = s.ai_paddle
  /\ player_score' = s.player_score
  /\ ai_score' = s.ai_score
  /\ game_paused' = s.game_paused
  /\ game_over' = s.game_over
  /\ winner' = s.winner
  /\ running' = s.running
  /\ sounds' = s.sounds
  /\ point_scored' = s.point_scored
  /\ served' = s.served
  /\ at_test' = s.at_test
  /\ hit' = s.hit

\* module level (138-151), then main_menu() is entered
Init ==
  /\ pc = "menu"
  /\ running = FALSE
  /\ ball = BallCentred
  /\ ball_speed_x = BALL_SPEED_X_INITIAL * Scale
  /\ ball_speed_y = BALL_SPEED_Y_INITIAL * Scale
  /\ player_paddle = [x |-> PADDLE_MARGIN, y |-> SCREEN_HEIGHT \div 2 - PADDLE_HEIGHT \div 2]
  /\ ai_paddle = [x |-> SCREEN_WIDTH - PADDLE_MARGIN - PADDLE_WIDTH,
                  y |-> SCREEN_HEIGHT \div 2 - PADDLE_HEIGHT \div 2]
  /\ player_score = 0
  /\ ai_score = 0
  /\ game_paused = FALSE
  /\ game_over = FALSE
  /\ winner = ""
  /\ op = "init"
  /\ sounds = <<>>
  /\ point_scored = FALSE
  /\ served = "none"
  /\ at_test = BallCentred
  /\ hit = "none"

\* the results random.choice can give in a handler that calls it when calls is
\* TRUE; a handler that does not call it draws nothing
Draws(calls) == IF calls THEN BOOLEAN ELSE {TRUE}

\* main_menu: RETURN returns True; reset_game(), running = True (371-372, 378-380)
StartGame ==
  /\ pc = "menu"
  /\ \E first \in BOOLEAN, choice \in BOOLEAN :
        SetGlobals([reset_game(Globals, first, choice) EXCEPT !.running = TRUE])
  /\ pc' = "loop"
  /\ op' = "KEYDOWN"

\* main_menu: QUIT or ESCAPE returns False and the program exits (368-374, 413-416)
MenuQuit ==
  /\ pc = "menu"
  /\ \E e \in {"QUIT", "KEYDOWN"} : op' = e
  /\ SetGlobals(Globals)
  /\ pc' = "done"

\* main_menu: any other key leaves the menu active (367-374)
MenuOtherKey ==
  /\ pc = "menu"
  /\ op' = "KEYDOWN"
  /\ SetGlobals(Globals)
  /\ pc' = "menu"

\* the type of an event
EventType(e) == IF e = "QUIT" THEN "QUIT" ELSE "KEYDOWN"

\* an event whose handler calls reset_game (389-391)
Resets(e) == e = "K_y" /\ game_over

\* one iteration of "for event in pygame.event.get()" (383-399)
Event(e) ==
  /\ pc = "loop"
  /\ \E first \in Draws(Resets(e)), choice \in Draws(Resets(e)) :
        SetGlobals(HandleEvent(Globals, e, first, choice))
  /\ op' = EventType(e)
  /\ pc' = pc

\* a tick that serves the ball again (323-324)
Serves(s) == ~Frozen(s) /\ LET t == ScoreTest(Resolved(s)) IN t.point_scored /\ ~t.game_over

\* the rest of the loop body: update_game_state(), then the test of "while running"
\* (381, 402-411)
Tick ==
  /\ pc = "loop"
  /\ \E mouse_y \in MousePositions, choice \in Draws(Serves(Globals)) :
        SetGlobals(update_game_state(Globals, mouse_y, choice))
  /\ op' = "tick"
  /\ pc' = IF running THEN "loop" ELSE "done"

Next ==
  \/ StartGame
  \/ MenuQuit
  \/ MenuOtherKey
  \/ \E e \in Keys \cup {"QUIT"} : Event(e)
  \/ Tick

Spec == Init /\ [][Next]_vars

\* ---- a rally: the pointer follows the ball ----

\* points played in a rally run
MaxPoints == 1

\* where the pointer is held relative to the ball's centre row: on it, or far
\* enough below it that the ball meets the upper end of the Player paddle
AimOffsets == {0, PADDLE_HEIGHT \div 2}

\* pygame.mouse.get_pos()[1] for a pointer held off rows below the centre of
\* the ball as it stands when the pointer is sampled (332), inside the window
Aim(s, off) == Min(BallCenterY(s.ball) + off, SCREEN_HEIGHT - 1)

\* update_game_state() with a pointer that follows the ball (381, 402-411)
RallyTick ==
  /\ pc = "loop"
  /\ player_score + ai_score < MaxPoints
  /\ \E off \in AimOffsets, choice \in Draws(Serves(Globals)) :
        LET t == ServeOrFreeze(ScoreTest(Resolved(Globals)), choice)
        IN SetGlobals(update_game_state(Globals, Aim(t, off), choice))
  /\ op' = "tick"
  /\ pc' = IF running THEN "loop" ELSE "done"

RallyNext ==
  \/ StartGame
  \/ RallyTick

RallySpec == Init /\ [][RallyNext]_vars

\* ---- the loop with the pointer left at rest ----

\* pygame.mouse.get_pos()[1] for a pointer left at mid-height (332)
RestRow == SCREEN_HEIGHT \div 2

\* update_game_state() with the pointer at rest (381, 402-411), its steps taken
\* one after the other on the values the step before left
StillTick ==
  /\ pc = "loop"
  /\ \E s \in {Globals} :
        IF Frozen(s) THEN SetGlobals(s)
        ELSE \E moved \in {MoveBall(s)} :
             \E struck \in {PaddleCollision(moved)} :
             \E adjusted \in {AdjustSpeedY(struck)} :
             \E bounced \in {WallCollision(adjusted)} :
             \E tested \in {ScoreTest([bounced EXCEPT !.at_test = bounced.ball])} :
             \E choice \in Draws(tested.point_scored /\ ~tested.game_over) :
             \E served_ball \in {ServeOrFreeze(tested, choice)} :
             \E steered \in {PlayerControl(served_ball, RestRow)} :
             \E followed \in {AIControl(steered)} :
                SetGlobals(followed)
  /\ op' = "tick"
  /\ pc' = IF running THEN "loop" ELSE "done"

FairNext ==
  \/ StartGame
  \/ Event("K_p")
  \/ Event("QUIT")
  \/ StillTick

\* the loop body runs update_game_state() in every frame for as long as the
\* program is in the loop (381, 402)
FairSpec == Init /\ [][FairNext]_vars /\ WF_vars(StillTick)

\* the steps of StillTick are those of update_game_state
StillTickIsUpdate ==
  [][StillTick <=>
       /\ pc = "loop"
       /\ \E choice \in Draws(Serves(Globals)) :
             SetGlobals(update_game_state(Globals, RestRow, choice))
       /\ op' = "tick"
       /\ pc' = IF running THEN "loop" ELSE "done"]_vars

\* ---- properties ----

\* the last step was a call of update_game_state
Ticked == op = "tick"

\* the last step was an event handler that called reset_game
WasReset == op = "KEYDOWN" /\ served # "none"

StartSpeeds == {BALL_SPEED_X_INITIAL * Scale, -BALL_SPEED_X_INITIAL * Scale}

\* C1: game_over holds exactly when one score is WINNING_SCORE; the scores are
\* never both WINNING_SCORE; winner names the side whose score is WINNING_SCORE
\* and is empty while the game is not over; winner changes only in the tick
\* that enters GameOver and in a reset_game that clears it.
C1_WinState ==
  /\ [](/\ game_over <=> (player_score = WINNING_SCORE \/ ai_score = WINNING_SCORE)
        /\ ~(player_score = WINNING_SCORE /\ ai_score = WINNING_SCORE)
        /\ winner = "Player" <=> player_score = WINNING_SCORE
        /\ winner = "AI" <=> ai_score = WINNING_SCORE
        /\ ~game_over => winner = "")
  /\ [][winner' # winner =>
          \/ Ticked' /\ ~game_over /\ game_over' /\ winner = ""
          \/ WasReset' /\ winner' = ""]_vars

C1_Witness == game_over /\ winner = "AI" /\ ai_score = WINNING_SCORE /\ player_score = 4

\* C2: a tick executed while the game is paused or over changes neither the
\* ball, its speed, the paddles, the scores nor winner, and plays no sound.
C2_FrozenTick ==
  [][(pc = "loop" /\ Ticked' /\ (game_paused \/ game_over)) =>
        /\ UNCHANGED <<ball, ball_speed_x, ball_speed_y, player_paddle, ai_paddle,
                       player_score, ai_score, winner>>
        /\ sounds' = <<>>]_vars

C2_Witness == Ticked /\ game_paused /\ ball # BallCentred /\ player_paddle.y = 0

\* C3: both scores stay within 0..WINNING_SCORE; a tick leaves both scores or
\* adds exactly 1 to exactly one of them; a score decreases only in an event
\* handler that calls reset_game.
C3_Scores ==
  /\ [](player_score \in 0..WINNING_SCORE /\ ai_score \in 0..WINNING_SCORE)
  /\ [][Ticked' =>
          \/ player_score' = player_score /\ ai_score' = ai_score
          \/ player_score' = player_score + 1 /\ ai_score' = ai_score
          \/ player_score' = player_score /\ ai_score' = ai_score + 1]_vars
  /\ [][(player_score' < player_score \/ ai_score' < ai_score) =>
          WasReset' /\ player_score' = 0 /\ ai_score' = 0]_vars

C3_Witness == Ticked /\ point_scored /\ player_score = 3 /\ ai_score = 2

\* C4: a tick that scores a point either ends the game (ball centred, both
\* speeds 0, no serve) or serves the ball with reset_ball (ball centred, both
\* speeds of magnitude 4, still playing), never both and never neither; a tick
\* that scores no point does neither.
GameOverTransition ==
  /\ ~game_over /\ game_over'
  /\ ball' = BallCentred /\ ball_speed_x' = 0 /\ ball_speed_y' = 0

ServeCommand ==
  /\ served' # "none"
  /\ ball' = BallCentred
  /\ ball_speed_x' \in StartSpeeds /\ ball_speed_y' \in StartSpeeds
  /\ ~game_paused' /\ ~game_over'

C4_OverOrServe ==
  [][Ticked' =>
       IF point_scored'
       THEN /\ GameOverTransition \/ ServeCommand
            /\ ~(game_over' /\ served' # "none")
       ELSE game_over' = game_over /\ served' = "none"]_vars

C4_Witness == Ticked /\ point_scored /\ game_over /\ served = "none" /\ winner = "Player"

\* at the scoring test of the last tick that was not skipped the ball stood at
\* or past the left / right bound
AtLeftEdge == Left(at_test) <= 0

AtRightEdge == BallRight(at_test) >= SCREEN_WIDTH

\* a tick that is not skipped
PlayingTick == pc = "loop" /\ ~game_paused /\ ~game_over /\ Ticked'

\* C5 as claimed: after a scoring tick that does not end the match the served
\* ball moves toward the side that conceded: left when the ball left through
\* the left edge, right when it left through the right edge.
C5_ServeTowardConceder ==
  [][(PlayingTick /\ point_scored' /\ ~game_over') =>
        /\ AtLeftEdge' => ball_speed_x' < 0
        /\ (~AtLeftEdge' /\ AtRightEdge') => ball_speed_x' > 0]_vars

\* C5 amended: after a scoring tick that does not end the match the served
\* ball moves away from the side that conceded: right (+4) when the ball left
\* through the left edge, left (-4) when it left through the right edge.
C5_ServeAwayFromConceder ==
  [][(PlayingTick /\ point_scored' /\ ~game_over') =>
        /\ AtLeftEdge' \/ AtRightEdge'
        /\ AtLeftEdge' => ball_speed_x' = BALL_SPEED_X_INITIAL * Scale
        /\ (~AtLeftEdge' /\ AtRightEdge') => ball_speed_x' = -BALL_SPEED_X_INITIAL * Scale]_vars

C5_Witness ==
  /\ Ticked /\ point_scored /\ ~game_over /\ AtRightEdge
  /\ ball_speed_x = -BALL_SPEED_X_INITIAL * Scale

\* C6: a tick that is not skipped and at whose scoring test ball.left <= 0 adds
\* exactly 1 to ai_score and plays the score sound; below WINNING_SCORE the ball
\* is served from the centre with ball_speed_x = +4; at WINNING_SCORE the game
\* is over, winner is "AI" and the ball rests at the centre with speed (0, 0).
C6_LeftExit ==
  [][(PlayingTick /\ AtLeftEdge') =>
        /\ ai_score' = ai_score + 1 /\ player_score' = player_score
        /\ \E i \in DOMAIN sounds' : sounds'[i] = "Score"
        /\ ball' = BallCentred
        /\ IF ai_score' < WINNING_SCORE
           THEN /\ ball_speed_x' = BALL_SPEED_X_INITIAL * Scale
                /\ served' = "player"
                /\ ~game_over' /\ winner' = ""
           ELSE /\ ai_score' = WINNING_SCORE
                /\ game_over' /\ winner' = "AI"
                /\ ball_speed_x' = 0 /\ ball_speed_y' = 0]_vars

C6_Witness ==
  /\ Ticked /\ point_scored /\ AtLeftEdge
  /\ game_over /\ winner = "AI" /\ ball = BallCentred /\ ball_speed_x = 0

\* C7 as claimed: the AI scores only when the whole ball is past the left
\* bound (ball.right <= 0), the Player only when the whole ball is past the
\* right bound (ball.left >= SCREEN_WIDTH).
C7_ScoresOnlyWhenOut ==
  [][PlayingTick =>
        /\ ai_score' = ai_score + 1 => BallRight(at_test') <= 0
        /\ player_score' = player_score + 1 => Left(at_test') >= SCREEN_WIDTH]_vars

\* C7 amended: the AI scores exactly when the ball's left edge is at or past
\* the left bound (ball.left <= 0), the Player exactly when, that not being so,
\* its right edge is at or past the right bound (ball.right >= SCREEN_WIDTH);
\* a ball strictly inside both bounds does not score.
C7_ScoresAtEdge ==
  [][PlayingTick =>
        /\ ai_score' = ai_score + 1 <=> Left(at_test') <= 0
        /\ player_score' = player_score + 1 <=>
              (Left(at_test') > 0 /\ BallRight(at_test') >= SCREEN_WIDTH)
        /\ point_scored' <=> (AtLeftEdge' \/ AtRightEdge')]_vars

\* the ball scored while part of it was still inside the arena
C7_Witness ==
  /\ Ticked /\ point_scored /\ ai_score >= 1
  /\ Left(at_test) <= 0 /\ BallRight(at_test) > 0

\* at the scoring test of the last tick that was not skipped the ball stood at

\* the phase, encoded as (in menu, game_paused, game_over)
Phase == <<pc = "menu", game_paused, game_over>>

ScoreAtWin == player_score = WINNING_SCORE \/ ai_score = WINNING_SCORE

PaddlesCentred ==
  /\ PaddleCenterY(player_paddle) = SCREEN_HEIGHT \div 2
  /\ PaddleCenterY(ai_paddle) = SCREEN_HEIGHT \div 2

\* C8: game_paused and game_over are never both true, and neither is true in
\* the menu; the phase changes only in an event handler (key or window event)
\* or in a tick in which a score reaches WINNING_SCORE.
C8_OnePhase ==
  /\ [](/\ ~(game_paused /\ game_over)
        /\ pc = "menu" => (~game_paused /\ ~game_over))
  /\ [][Phase' # Phase =>
          \/ op' \in {"KEYDOWN", "QUIT"}
          \/ PlayingTick /\ point_scored' /\ ScoreAtWin' /\ game_over']_vars

\* a key other than Y / N was handled while the game was over
C8_Witness == pc = "loop" /\ running /\ game_over /\ op = "KEYDOWN" /\ ~game_paused

\* C9: K_p and K_ESCAPE each turn Playing into Paused and Paused into Playing
\* and change nothing else; while the game is over they change nothing, so the
\* game is never paused while over.
C9_PauseKeys ==
  /\ [][\A k \in {"K_p", "K_ESCAPE"} :
          Event(k) =>
            /\ UNCHANGED <<pc, running, ball, ball_speed_x, ball_speed_y, player_paddle,
                           ai_paddle, player_score, ai_score, game_over, winner>>
            /\ game_paused' = IF game_over THEN game_paused ELSE ~game_paused]_vars
  /\ [](game_over => ~game_paused)

\* a key paused the game in the middle of a rally
C9_Witness ==
  /\ pc = "loop" /\ op = "KEYDOWN" /\ game_paused /\ ~game_over
  /\ ball # BallCentred /\ running

\* C10: while the game is over, every tick and every event leaves game_over,
\* the scores, winner and the ball as they are, except K_y, which resets the
\* match and returns to Playing; K_n and QUIT clear running, after which the
\* loop body ends with the program's exit; game_over becomes true only in a
\* tick that is not skipped and in which a score reaches WINNING_SCORE.
C10_GameOver ==
  /\ [][(pc = "loop" /\ game_over) =>
          \/ /\ game_over'
             /\ UNCHANGED <<player_score, ai_score, winner, ball, ball_speed_x,
                            ball_speed_y, game_paused>>
             /\ running' = running \/ (~running' /\ (Event("K_n") \/ Event("QUIT")))
          \/ /\ Event("K_y")
             /\ ~game_over' /\ ~game_paused' /\ running' = running
             /\ player_score' = 0 /\ ai_score' = 0 /\ winner' = ""
             /\ ball' = BallCentred
             /\ ball_speed_x' \in StartSpeeds /\ ball_speed_y' \in StartSpeeds
             /\ PaddlesCentred']_vars
  /\ [][(game_over /\ (Event("K_n") \/ Event("QUIT"))) => ~running']_vars
  /\ [][(pc = "loop" /\ ~running /\ Ticked') => pc' = "done"]_vars
  /\ [][pc # "done"]_vars
  /\ [][(~game_over /\ game_over') => (PlayingTick /\ point_scored' /\ ScoreAtWin')]_vars

\* the program has exited from a finished game
C10_Witness == pc = "done" /\ ~running /\ game_over /\ Ticked

\* C11: right after reset_game (RETURN in the menu, or K_y when the game is
\* over) the game is Playing, both scores are 0, winner is empty, both paddles
\* and the ball are centred and each speed is +4 or -4, whatever the state was
\* before.
C11_AfterReset ==
  [][(StartGame \/ (pc = "loop" /\ game_over /\ Event("K_y"))) =>
        /\ pc' = "loop" /\ ~game_paused' /\ ~game_over'
        /\ player_score' = 0 /\ ai_score' = 0 /\ winner' = ""
        /\ PaddlesCentred'
        /\ ball' = BallCentred
        /\ ball_speed_x' \in StartSpeeds /\ ball_speed_y' \in StartSpeeds
        /\ served' # "none"]_vars

\* a replay (the last scoring test saw the ball at an edge) after a game the
\* Player won, served toward the Player side and upward, paddles centred again
C11_Witness ==
  /\ WasReset /\ pc = "loop" /\ AtRightEdge
  /\ player_score = 0 /\ ai_score = 0 /\ ~game_over
  /\ ball_speed_x = -BALL_SPEED_X_INITIAL * Scale
  /\ ball_speed_y = -BALL_SPEED_Y_INITIAL * Scale

\* C12: both paddle rectangles lie within the arena's vertical bounds in every
\* state, and their horizontal positions are the initial ones.
C12_PaddlesInBounds ==
  /\ 0 <= Top(player_paddle) /\ PaddleBottom(player_paddle) <= SCREEN_HEIGHT
  /\ 0 <= Top(ai_paddle) /\ PaddleBottom(ai_paddle) <= SCREEN_HEIGHT
  /\ Left(player_paddle) = PADDLE_MARGIN
  /\ Left(ai_paddle) = SCREEN_WIDTH - PADDLE_MARGIN - PADDLE_WIDTH

\* both paddles pressed against a bound by the clamp
C12_Witness ==
  /\ Ticked /\ PaddleBottom(player_paddle) = SCREEN_HEIGHT
  /\ Top(ai_paddle) = 0

\* a tick of a running game that resolved a paddle collision
HitTick == PlayingTick /\ hit' # "none"

\* C13: |ball_speed_x| never exceeds MAX_ABS_BALL_SPEED_X; a paddle hit sets
\* |vx| to min(|vx| * 1.07, 10), which is never less than before, positive after
\* a Player-paddle hit and negative after an AI-paddle hit; a tick without a hit
\* and without a point leaves vx alone.
C13_SpeedX ==
  /\ [](Abs(ball_speed_x) <= MAX_ABS_BALL_SPEED_X * Scale)
  /\ [][HitTick =>
          /\ Abs(ball_speed_x') =
               Min((Abs(ball_speed_x) * SPEED_INCREASE_NUM) \div SPEED_INCREASE_DEN,
                   MAX_ABS_BALL_SPEED_X * Scale)
          /\ Abs(ball_speed_x') >= Abs(ball_speed_x)
          /\ (hit' = "player" => ball_speed_x' > 0)
          /\ (hit' = "ai" => ball_speed_x' < 0)]_vars
  /\ [][PlayingTick /\ hit' = "none" /\ ~point_scored' =>
          ball_speed_x' = ball_speed_x]_vars

\* a Player-paddle hit that leaves the ball at the maximum speed, moving right
C13_Witness ==
  /\ Ticked /\ hit = "player" /\ sounds = <<"PaddleHit">>
  /\ ball_speed_x = MAX_ABS_BALL_SPEED_X * Scale

\* delta_y of the collision a tick resolves: the moved ball's centre row minus
\* the centre row of the paddle it met, as that paddle stood at impact
ImpactDelta ==
  BallCenterY(MoveBall(Globals).ball)
    - PaddleCenterY(IF hit' = "player" THEN player_paddle ELSE ai_paddle)

\* C14: after a tick that resolved a paddle collision ball_speed_y is 0 or
\* 1 <= |vy| <= MAX_ABS_BALL_SPEED_Y; it is 0 exactly when the ball's centre row
\* equalled the paddle's at impact; and |vy| <= 8 in every state.
C14_SpeedY ==
  /\ [](Abs(ball_speed_y) <= MAX_ABS_BALL_SPEED_Y * Scale)
  /\ [][HitTick =>
          /\ \/ ball_speed_y' = 0
             \/ /\ Scale <= Abs(ball_speed_y')
                /\ Abs(ball_speed_y') <= MAX_ABS_BALL_SPEED_Y * Scale
          /\ (ball_speed_y' = 0) <=> (ImpactDelta = 0)]_vars

\* a hit on the centre of the Player paddle: the ball leaves level
C14_Witness ==
  /\ Ticked /\ hit = "player" /\ ball_speed_y = 0
  /\ ball_speed_x > 0 /\ Left(ball) = PaddleRight(player_paddle)

\* the ball's rows and a paddle's rows intersect
RowsOverlap(b, p) == Top(b) < PaddleBottom(p) /\ Top(p) < BallBottom(b)

\* C15: at the end of a tick that resolved a paddle collision the ball is flush
\* with that paddle and does not overlap it (ball.left = player_paddle.right
\* after a Player-paddle hit, ball.right = ai_paddle.left after an AI-paddle
\* hit), and the moved ball never overlaps both paddles.
C15_Flush ==
  /\ [][HitTick =>
          /\ hit' = "player" =>
                /\ Left(ball') = PaddleRight(player_paddle')
                /\ ~colliderect(ball', player_paddle')
          /\ hit' = "ai" =>
                /\ BallRight(ball') = Left(ai_paddle')
                /\ ~colliderect(ball', ai_paddle')]_vars
  /\ [][PlayingTick =>
          LET b == MoveBall(Globals).ball
          IN ~(colliderect(b, player_paddle) /\ colliderect(b, ai_paddle))]_vars
  /\ [](~(colliderect(ball, player_paddle) /\ colliderect(ball, ai_paddle)))

\* after an AI-paddle hit the ball rests against the paddle's face, on rows the
\* paddle still covers once both paddles have moved
C15_Witness ==
  /\ Ticked /\ hit = "ai" /\ BallRight(ball) = Left(ai_paddle)
  /\ RowsOverlap(ball, ai_paddle) /\ ball_speed_x < 0

\* the tick's state after integration and paddle resolution, before the walls
PreWall == AdjustSpeedY(PaddleCollision(MoveBall(Globals)))

\* the ball is at or past the top or the bottom bound
AtWall(b) == Top(b) <= 0 \/ BallBottom(b) >= SCREEN_HEIGHT

\* the row a ball at or past a bound is clamped to
WallRow(b) == IF Top(b) <= 0 THEN 0 ELSE SCREEN_HEIGHT - BALL_SIZE

\* a sound was played during the last operation
Emitted(played, sound) == \E i \in 1..Len(played) : played[i] = sound

\* C16: in a tick where the ball, after integration and paddle resolution, is at
\* or past the top or bottom bound, the ball is clamped to the bound and vy is
\* negated; WallHit is emitted in that tick exactly when no paddle collision
\* occurred in it, and in no other tick, so PaddleHit and WallHit are never both
\* emitted; a ball served from the centre at (+4,+4) reaches the bottom wall
\* without a paddle hit, leaves with (+4,-4) and emits WallHit only.
C16_WallBounce ==
  /\ [][PlayingTick /\ AtWall(PreWall.ball) =>
          /\ Top(at_test') = WallRow(PreWall.ball)
          /\ ~point_scored' =>
                /\ Top(ball') = WallRow(PreWall.ball)
                /\ ball_speed_y' = -PreWall.ball_speed_y
          /\ Emitted(sounds', "WallHit") <=> (hit' = "none")]_vars
  /\ [][PlayingTick /\ ~AtWall(PreWall.ball) => ~Emitted(sounds', "WallHit")]_vars
  /\ [](~(Emitted(sounds, "PaddleHit") /\ Emitted(sounds, "WallHit")))
  /\ [][/\ PlayingTick
        /\ ball = [x |-> BallCentred.x + 47 * BALL_SPEED_X_INITIAL,
                   y |-> BallCentred.y + 47 * BALL_SPEED_Y_INITIAL]
        /\ ball_speed_x = BALL_SPEED_X_INITIAL * Scale
        /\ ball_speed_y = BALL_SPEED_Y_INITIAL * Scale
        => /\ BallBottom(ball') = SCREEN_HEIGHT
           /\ ball_speed_x' = BALL_SPEED_X_INITIAL * Scale
           /\ ball_speed_y' = -BALL_SPEED_Y_INITIAL * Scale
           /\ sounds' = <<"WallHit">>]_vars

\* a paddle hit against a wall: the ball is clamped and only PaddleHit sounds
C16_Witness ==
  /\ Ticked /\ hit # "none" /\ sounds = <<"PaddleHit">>
  /\ AtWall(ball) /\ ~point_scored

\* the AI paddle's vertical displacement in a step
AIMove == Top(ai_paddle') - Top(ai_paddle)

\* ball.centery - ai_paddle.centery as the AI control reads them (340-342): the
\* ball as it stands after the tick's scoring and serve, the paddle before it moves
AIGap == BallCenterY(ball') - PaddleCenterY(ai_paddle)

\* the same difference once the paddle has moved
AIGapAfter == BallCenterY(ball') - PaddleCenterY(ai_paddle')

\* the displacement a further AI control step would make with the ball where it is
AIMoveAgain == Top(AIControl(Globals').ai_paddle) - Top(ai_paddle')

\* |ai_paddle.centery - ball.centery| <= AI_PADDLE_SPEED / 2
InDeadzone == 2 * Abs(AIGap) <= AI_PADDLE_SPEED

\* the AI paddle rests against the bound on the ball's side
AIPinned ==
  \/ AIGap > 0 /\ PaddleBottom(ai_paddle') = SCREEN_HEIGHT
  \/ AIGap < 0 /\ Top(ai_paddle') = 0

\* C17 as stated: in every tick of a running game the AI paddle moves by at most
\* AI_PADDLE_SPEED, by 0 inside the deadzone, and otherwise toward the ball's
\* centre row without increasing its distance to it; a further step with the
\* ball's centre unchanged never reverses the direction.
C17_AIMovesToward ==
  [][PlayingTick =>
       /\ Abs(AIMove) <= AI_PADDLE_SPEED
       /\ InDeadzone => AIMove = 0
       /\ ~InDeadzone => /\ AIMove * AIGap > 0
                         /\ Abs(AIGapAfter) <= Abs(AIGap)
       /\ AIMove * AIMoveAgain >= 0]_vars

\* C17 amended: outside the deadzone the paddle moves AI_PADDLE_SPEED toward the
\* ball's centre row, or less (possibly not at all) when the arena bound on that
\* side stops it; the rest as stated.
C17_AITracks ==
  [][PlayingTick =>
       /\ Abs(AIMove) <= AI_PADDLE_SPEED
       /\ InDeadzone => AIMove = 0
       /\ ~InDeadzone => /\ AIMove * AIGap >= 0
                         /\ Abs(AIMove) = AI_PADDLE_SPEED \/ AIPinned
                         /\ Abs(AIGapAfter) <= Abs(AIGap)
       /\ AIMove * AIMoveAgain >= 0]_vars

\* the AI paddle held at the bottom bound with the ball's centre further down
C17_Witness ==
  /\ Ticked /\ pc = "loop" /\ ~game_over /\ ~game_paused
  /\ PaddleBottom(ai_paddle) = SCREEN_HEIGHT
  /\ 2 * (BallCenterY(ball) - PaddleCenterY(ai_paddle)) > AI_PADDLE_SPEED
  /\ ball_speed_y < 0

\* C18: a tick in which the ball collides with a paddle changes neither score,
\* serves no ball and does not end the game; at its scoring test the ball is
\* strictly inside the horizontal bounds; PaddleHit and Score are never both
\* emitted.
C18_HitNoScore ==
  /\ [][HitTick =>
          /\ Emitted(sounds', "PaddleHit")
          /\ player_score' = player_score /\ ai_score' = ai_score
          /\ ~point_scored' /\ served' = "none"
          /\ ~game_over' /\ winner' = winner
          /\ 0 < Left(at_test') /\ BallRight(at_test') < SCREEN_WIDTH]_vars
  /\ [](~(Emitted(sounds, "PaddleHit") /\ Emitted(sounds, "Score")))
  /\ [](Emitted(sounds, "PaddleHit") <=> hit # "none")

\* the AI paddle returns the ball at four points each: the next point decides
\* the game, and this tick scores nothing
C18_Witness ==
  /\ Ticked /\ hit = "ai" /\ sounds = <<"PaddleHit">>
  /\ player_score = WINNING_SCORE - 1 /\ ai_score = WINNING_SCORE - 1
  /\ ~point_scored /\ ~game_over

\* a ball rectangle inside the arena, clear of the left and right bounds
InArena(b) ==
  /\ 0 <= Top(b) /\ BallBottom(b) <= SCREEN_HEIGHT
  /\ 0 < Left(b) /\ BallRight(b) < SCREEN_WIDTH

\* C19: in every state, whatever the phase, the ball rectangle lies inside the
\* arena (0 <= top, bottom <= SCREEN_HEIGHT, 0 < left, right < SCREEN_WIDTH); a
\* tick whose scoring test sees the ball at the left or right bound scores and
\* ends with the ball re-centred.
C19_BallInArena ==
  /\ [](InArena(ball))
  /\ [][PlayingTick /\ (AtLeftEdge' \/ AtRightEdge') =>
          /\ point_scored' /\ ball' = BallCentred
          /\ (served' # "none") # game_over']_vars
  /\ [][PlayingTick /\ ~(AtLeftEdge' \/ AtRightEdge') =>
          ball' = at_test' /\ ~point_scored']_vars

\* the ball met the right bound and a wall in one tick and was served again
\* from the centre
C19_Witness ==
  /\ Ticked /\ point_scored /\ ~game_over /\ served # "none"
  /\ AtRightEdge /\ AtWall(at_test) /\ ball = BallCentred

\* the game is being played: in the loop, neither paused nor over
Playing == pc = "loop" /\ ~game_paused /\ ~game_over

\* the last operation was a tick with a paddle hit or a point
HitOrPoint == Ticked /\ (hit # "none" \/ point_scored)

\* C20: while the game is not over |ball_speed_x| >= BALL_SPEED_X_INITIAL, and
\* ball_speed_x = 0 only when the game is over; a tick of a running game with
\* neither a hit nor a point moves the ball horizontally; and from any Playing
\* state a paddle hit or a point follows, unless the game is paused or left.
C20_NoStall ==
  /\ [](~game_over => Abs(ball_speed_x) >= BALL_SPEED_X_INITIAL * Scale)
  /\ [](ball_speed_x = 0 => game_over)
  /\ [][PlayingTick /\ hit' = "none" /\ ~point_scored' =>
          /\ Left(ball') # Left(ball)
          /\ (Left(ball') > Left(ball)) <=> (ball_speed_x > 0)]_vars
  /\ Playing ~> (HitOrPoint \/ game_paused \/ pc = "done")

\* a point scored after the ball crossed the arena at the serve speed without
\* meeting a paddle
C20_Witness ==
  /\ HitOrPoint /\ point_scored /\ hit = "none" /\ AtLeftEdge
  /\ Left(at_test) = 0 /\ ~game_over /\ player_score = 0 /\ ai_score = 1

====
